---------------------------- MODULE Spec2Model ----------------------------
(***************************************************************************)
(* A model of the spatial association and door numbering engine of         *)
(* flamingo.lib (src/flamingo/revit.py):                                   *)
(*                                                                         *)
(*   - DoorRenameByRoomNumber: the room/door graph construction and the    *)
(*     levelled numbering loop (specifications Spec, SpecTwice, SpecPair); *)
(*   - GetElementRooms / _GetMatchingRooms: the tiered room resolver       *)
(*     (specification SpecResolver), GetElementRoomsFromLink (SpecLink)    *)
(*     and the outline construction with _ProjectToLevel (SpecOutline).    *)
(*                                                                         *)
(* The host (Revit) model is the environment: which rooms a door reports   *)
(* as ToRoom / FromRoom, the room areas, the mark parameter of each door,  *)
(* and the answers of the geometry kernel.  Strings are sequences of       *)
(* one-character strings, so that "{}{}".format(a, b) is concatenation.    *)
(* The code runs under pyRevit's IronPython 2.7 engine: filter() returns a *)
(* list and dict.items() a list.                                           *)
(***************************************************************************)
EXTENDS Integers, Sequences, FiniteSets, TLC

\* ------------------------------------------------------------------ bounds

\* Number of door elements of the model (allDoors = 1 .. NumDoors, in the
\* order the element collector returns them).
NumDoors == 3

Doors == 1 .. NumDoors

\* The rooms of the model, and the values room areas are drawn from.
Rooms == { 1, 2 }
Areas == { 1, 2 }

\* Python's None for a room property that is not populated.
NoRoom == 0

\* The value of `returned` while the call has not returned.
NotReturned == << "<no value>" >>

\* Python's None for an optional string argument.
ArgNone == << "<None>" >>

\* ----------------------------------------------------------------- strings

\* string.ascii_uppercase
ascii_uppercase ==
    << "A", "B", "C", "D", "E", "F", "G", "H", "I", "J", "K", "L", "M",
       "N", "O", "P", "Q", "R", "S", "T", "U", "V", "W", "X", "Y", "Z" >>

Digits == << "1", "2", "3", "4", "5", "6", "7", "8", "9" >>

\* room.Number of the host model: rooms 1, 2, ... are numbered 101, 102, ...
RoomNumber(room) == << "1", "0", Digits[room] >>

\* The mark every door carries before the first call.
InitialMark(door) == << "o", "l", "d", Digits[door] >>

\* Caller-supplied values of the optional arguments.
CustomPrefix == << "P" >>
CustomSeperator == << "-" >>
CustomSuffixList == << "x", "y", "z", "w", "v", "u", "t", "s" >>

\* ---------------------------------------------------------------- variables

VARIABLES
    \* host model
    toRoom,          \* door -> (door.ToRoom)[phase], NoRoom when unset
    fromRoom,        \* door -> (door.FromRoom)[phase], NoRoom when unset
    roomArea,        \* room -> room.Area
    mark,            \* door -> value of its ALL_MODEL_MARK parameter
    \* arguments of DoorRenameByRoomNumber
    doors,           \* the doors argument (a set of door ids)
    prefix, seperator, suffixList,
    \* locals of DoorRenameByRoomNumber
    pc,              \* "start", "loop", "done" (returned), "raised"
    doorsByRoom,     \* room id -> [doors, roomNumber, roomArea, doorCount]
    doorConnectors,  \* door id -> connector score
    maxLength,
    numberedDoors,
    i, n, nMax,
    \* history of the call in progress
    markBefore,      \* door -> mark when the call started
    assigned,        \* one entry per pass of the inner `for j, doorId` loop
    rounds,          \* one entry per pass of the while loop
    exitBy,          \* "none", "level" (i > maxLength), "cap" (n > nMax)
    returned,        \* the value the call returned, NotReturned before
    run,             \* 1 for the first call, 2 for a repeated call
    firstRunMark     \* door -> mark when the first call ended

doorVars ==
    << toRoom, fromRoom, roomArea, mark, doors, prefix,
       seperator, suffixList, pc, doorsByRoom, doorConnectors, maxLength,
       numberedDoors, i, n, nMax, markBefore, assigned, rounds, exitBy,
       returned, run, firstRunMark >>

VARIABLES
    \* arguments of GetElementRooms and the element's self-reported rooms
    roomsGiven,      \* FALSE when the rooms argument is omitted (None)
    roomsArg,        \* the rooms argument, a list of rooms
    eHasToRoom,      \* hasattr(element, "ToRoom")
    eToRoom,         \* (element.ToRoom)[phase]
    eFromRoom,       \* (element.FromRoom)[phase]
    eHasRoom,        \* hasattr(element, "Room")
    eRoom,           \* (element.Room)[phase]
    \* locals of GetElementRooms and _GetMatchingRooms
    rpc,             \* position of the call, "idle" when there is none
    bbox,            \* element.get_BoundingBox(None): "none", "disabled",
                     \* "enabled"; "unread" before the call reads it
    rooms,           \* the candidate rooms the collector returned
    elementSolids,   \* len(GetSolids(element)), -1 before it is read
    cursor,          \* position of `for room in rooms` in the running tier
    matchedRooms,
    roomMatchVolumes,\* the dict volume -> room of the bounding-volume tier
    result,          \* the list returned, << >> also when None is returned
    outcome,         \* "list", "None", an exception name, "" while running
    \* answers of the host model and of the geometry kernel, and history
    roomSolidCount,  \* room -> len(GetSolids(room)), -1 while not asked
    overlaps,        \* rooms with a solid that truly overlaps an element solid
    probeVolume,     \* room -> volume the bounding-volume tier measured
    opCount,         \* geometry operation -> number of calls made
    tiersRun,        \* the tiers of _GetMatchingRooms in evaluation order
    tierResult,      \* tier -> matchedRooms when the tier ended
    liveSolids,      \* solids MakeSolid built that are not disposed
    \* the element's geometry and the outlines built from it
    eBoundingBox,    \* element.get_BoundingBox(None): "none", "disabled",
                     \* "enabled"
    boxHits,         \* rooms whose bounding box intersects the filter outline
    eShape,          \* bounding box, location, level, offset, projectToLevel
                     \* and the translation of the link transform
    elementOutline,  \* the local elementOutline, NoOutline before it is built
    filterOutline,   \* the outline given to BoundingBoxIntersectsFilter
    solidBox         \* the corners MakeSolid was called with, NoOutline if not

resolverVars ==
    << roomsGiven, roomsArg, eHasToRoom, eToRoom, eFromRoom, eHasRoom, eRoom,
       eBoundingBox, boxHits, eShape, elementOutline, filterOutline, solidBox,
       rpc, bbox, rooms, elementSolids, cursor, matchedRooms,
       roomMatchVolumes, result, outcome, roomSolidCount, overlaps,
       probeVolume, opCount, tiersRun, tierResult, liveSolids >>

vars == << doorVars, resolverVars >>

\* ----------------------------------------------------------------- helpers

Range(s) == { s[k] : k \in 1 .. Len(s) }

Max(S) == CHOOSE x \in S : \A y \in S : y <= x

\* The keys of a dict in iteration order.  The order of a Python 2 dict is
\* arbitrary but fixed for a given set of keys; the model takes ascending
\* room ids.  Room ids carry no other meaning and Init draws every
\* door/room graph and every area assignment, so every other order is the
\* image of a modelled one under a renaming of the rooms.
RECURSIVE SetToSeq(_)
SetToSeq(S) ==
    IF S = {} THEN << >>
    ELSE LET m == CHOOSE x \in S : \A y \in S : x <= y
         IN << m >> \o SetToSeq(S \ {m})

DictKeys(d) == SetToSeq(DOMAIN d)

\* sorted(seq, key=lambda x: key[x]): stable, ascending.
RECURSIVE InsertAsc(_, _, _)
InsertAsc(x, s, key) ==
    IF s = << >> THEN << x >>
    ELSE IF key[Head(s)] <= key[x]
         THEN << Head(s) >> \o InsertAsc(x, Tail(s), key)
         ELSE << x >> \o s

RECURSIVE SortedAsc(_, _)
SortedAsc(s, key) ==
    IF s = << >> THEN << >>
    ELSE InsertAsc(s[Len(s)], SortedAsc(SubSeq(s, 1, Len(s) - 1), key), key)

\* A numbering that takes the doors of a room in the order of its list.
InListOrder(s, key) == s

\* sorted(seq, key=lambda x: key[x], reverse=True): stable, descending
\* (equal keys keep their original order).
RECURSIVE InsertDesc(_, _, _)
InsertDesc(x, s, key) ==
    IF s = << >> THEN << x >>
    ELSE IF key[Head(s)] >= key[x]
         THEN << Head(s) >> \o InsertDesc(x, Tail(s), key)
         ELSE << x >> \o s

RECURSIVE SortedDesc(_, _)
SortedDesc(s, key) ==
    IF s = << >> THEN << >>
    ELSE InsertDesc(s[Len(s)], SortedDesc(SubSeq(s, 1, Len(s) - 1), key), key)

\* ------------------------------------------------ graph construction

\* The dictionary entry of a room met for the first time.
NewRoomEntry(room, door) ==
    [ doors |-> << door >>,
      roomNumber |-> RoomNumber(room),
      roomArea |-> roomArea[room],
      doorCount |-> 0 ]

\* doorsByRoom[room]["doors"] = doorsByRoom[room]["doors"] + [door.Id]
AppendDoor(dbr, room, door) ==
    [ dbr EXCEPT ![room].doors = Append(@, door) ]

\* One pass of `for door in allDoors` of the graph construction.  A door
\* whose ToRoom lookup raises is skipped (continue) and leaves the dictionary
\* as a door with neither room does: it is the case t = f = NoRoom.
AddDoor(dbr, door) ==
    LET t == toRoom[door]
        f == fromRoom[door]
        afterTo == IF t # NoRoom /\ t \in DOMAIN dbr
                   THEN AppendDoor(dbr, t, door) ELSE dbr
        addTo == IF t # NoRoom /\ t \notin DOMAIN dbr THEN { t } ELSE {}
        afterFrom == IF f # NoRoom /\ f \in DOMAIN afterTo
                     THEN AppendDoor(afterTo, f, door) ELSE afterTo
        addFrom == IF f # NoRoom /\ f \notin DOMAIN afterTo
                   THEN { f } ELSE {}
        roomsToAdd == addTo \cup addFrom
    IN [ r \in DOMAIN afterFrom \cup roomsToAdd |->
           IF r \in roomsToAdd THEN NewRoomEntry(r, door) ELSE afterFrom[r] ]

RECURSIVE BuildDoorsByRoom(_, _)
BuildDoorsByRoom(dbr, door) ==
    IF door > NumDoors THEN dbr
    ELSE BuildDoorsByRoom(AddDoor(dbr, door), door + 1)

EmptyDict == [ r \in {} |-> 0 ]

RECURSIVE SumLen(_, _, _)
SumLen(dbr, roomSet, door) ==
    IF roomSet = {} THEN 0
    ELSE LET r == CHOOSE x \in roomSet : TRUE
         IN (IF door \in Range(dbr[r].doors) THEN Len(dbr[r].doors) ELSE 0)
            + SumLen(dbr, roomSet \ {r}, door)

\* doorConnectors: for every door listed by some room, the sum of the
\* lengths of the door lists it occurs in.
BuildDoorConnectors(dbr) ==
    [ d \in { d \in Doors : \E r \in DOMAIN dbr : d \in Range(dbr[r].doors) }
        |-> SumLen(dbr, DOMAIN dbr, d) ]

\* doorsByRoom[key]["doorCount"] = len(values["doors"])
WithDoorCounts(dbr) ==
    [ r \in DOMAIN dbr |-> [ dbr[r] EXCEPT !.doorCount = Len(dbr[r].doors) ] ]


\* --------------------------------------------------------- the arguments

\* if prefix is None: prefix = "" (and likewise seperator, suffixList)
DefaultedPrefix == IF prefix = ArgNone THEN << >> ELSE prefix
DefaultedSeperator == IF seperator = ArgNone THEN << >> ELSE seperator
DefaultedSuffixList == IF suffixList = ArgNone THEN ascii_uppercase ELSE suffixList

\* selectedDoorIds = [door.Id for door in doors]
selectedDoorIds == doors

\* ------------------------------------------------------ the numbering loop

\* A numbering that gives every door the bare number of its room.
BareRoomNumber(values, j, doorsToNumber) == values.roomNumber

\* The mark computed in the inner loop for the door at position j (from 0)
\* of sortedDoorsToNumber.
ComputeMark(values, j, doorsToNumber) ==
    IF Len(doorsToNumber) > 1
    THEN values.roomNumber \o << ascii_uppercase[j + 1] >>
    ELSE values.roomNumber

\* A numbering that writes the mark of every door it numbers.
EveryDoorSelected(doorId) == TRUE

\* if door.Id in selectedDoorIds
IsSelected(doorId) == doorId \in selectedDoorIds

\* A numbering that extends the mark a door has instead of replacing it.
ExtendMark(marks, doorId, newMark) ==
    [ marks EXCEPT ![doorId] = @ \o newMark ]

\* markParameter.Set(mark)
SetMark(marks, doorId, newMark) == [ marks EXCEPT ![doorId] = newMark ]

\* A numbering that returns only the doors it numbered.
ReturnNumberedDoors == doors \cap numberedDoors

\* return doors
ReturnValue == doors

\* One pass of `for j, doorId in enumerate(sortedDoorsToNumber)`; st carries
\* numberedDoors, the mark parameters and the history.
NumberDoor(st, roomId, values, j, doorId, doorsToNumber, level, round) ==
    LET newMark == ComputeMark(values, j, doorsToNumber)
        selected == IsSelected(doorId)
    IN [ numbered |-> st.numbered \cup { doorId },
         mark |-> IF selected
                  THEN SetMark(st.mark, doorId, newMark)
                  ELSE st.mark,
         assigned |-> Append(st.assigned,
                        [ round |-> round, level |-> level, room |-> roomId,
                          j |-> j, door |-> doorId,
                          total |-> Len(doorsToNumber),
                          distinct |-> Cardinality(Range(doorsToNumber)),
                          again |-> doorId \in st.numbered,
                          mark |-> newMark, written |-> selected ]) ]

RECURSIVE NumberDoors(_, _, _, _, _, _, _, _)
NumberDoors(st, roomId, values, j, sortedDoorsToNumber, doorsToNumber, level, round) ==
    IF j >= Len(sortedDoorsToNumber) THEN st
    ELSE NumberDoors(
           NumberDoor(st, roomId, values, j, sortedDoorsToNumber[j + 1],
                      doorsToNumber, level, round),
           roomId, values, j + 1, sortedDoorsToNumber, doorsToNumber,
           level, round)

\* One pass of `for roomId in roomsThisRound`.
NumberRoom(st, dbr, roomId, level, round) ==
    LET values == dbr[roomId]
        doorsToNumber ==
            SelectSeq(values.doors, LAMBDA d : d \notin st.numbered)
        sortedDoorsToNumber == SortedDesc(doorsToNumber, doorConnectors)
    IN IF values.doorCount = level
       THEN NumberDoors(st, roomId, values, 0, sortedDoorsToNumber,
                        doorsToNumber, level, round)
       ELSE st

RECURSIVE NumberRooms(_, _, _, _, _)
NumberRooms(st, dbr, roomsThisRound, level, round) ==
    IF roomsThisRound = << >> THEN st
    ELSE NumberRooms(NumberRoom(st, dbr, Head(roomsThisRound), level, round),
                     dbr, Tail(roomsThisRound), level, round)

\* A numbering that takes the rooms of a pass in the order of the dictionary.
RoomsInDictOrder(dbr, level) ==
    SelectSeq(DictKeys(dbr), LAMBDA r : dbr[r].doorCount = level)

\* The rooms of one pass of the while loop: those whose doorCount equals the
\* level, sorted by area.
RoomsThisRound(dbr, level) ==
    SortedAsc(SelectSeq(DictKeys(dbr), LAMBDA r : dbr[r].doorCount = level),
              [ r \in DOMAIN dbr |-> dbr[r].roomArea ])

\* A cap at the count of doors instead of its double.
CapAtDoorCount(doorCount) == doorCount

\* nMax = doorCount * 2
IterationCap(doorCount) == doorCount * 2

\* A loop that counts only the passes in which a room was eligible.
CountProductivePass(nBefore, noRooms) ==
    IF noRooms THEN nBefore ELSE nBefore + 1

\* n += 1 at the end of every pass of the while loop.
CountPass(nBefore, noRooms) == nBefore + 1

\* if noRooms: i += 1
NextLevel(level, noRooms) == IF noRooms THEN level + 1 ELSE level

\* A loop that never recomputes the door lists and counts of the rooms.
NoRecount(dbr, numbered) == dbr

\* A recount that sets the count of a room one above the length of its list.
RecountPlusOne(dbr, numbered) ==
    [ r \in DOMAIN dbr |->
        LET unNumberedDoors ==
                SelectSeq(dbr[r].doors, LAMBDA d : d \notin numbered)
        IN [ dbr[r] EXCEPT !.doors = unNumberedDoors,
                           !.doorCount = Len(unNumberedDoors) + 1 ] ]

\* The recount that ends a pass: every room keeps its un-numbered doors.
\* filter(None, ...) drops nothing, an ElementId being truthy.
Recount(dbr, numbered) ==
    [ r \in DOMAIN dbr |->
        LET unNumberedDoors ==
                SelectSeq(dbr[r].doors, LAMBDA d : d \notin numbered)
        IN [ dbr[r] EXCEPT !.doors = unNumberedDoors,
                           !.doorCount = Len(unNumberedDoors) ] ]

\* ----------------------------------------------------- the room resolver

\* Bounds of the resolver's inputs: the solids of the element and of a
\* room, and the volumes the kernel reports, in units of the epsilon.
MaxSolids == 2
MaxVolume == 3

\* The 0.000001 of _TestRoomIntersect, the unit of the model's volumes.
Epsilon == 1

Volumes == 0 .. MaxVolume

\* ExecuteBooleanOperation raised InvalidOperationException.
KernelFails == -1

GeometryOps ==
    { "get_BoundingBox", "BoundingBoxIntersectsFilter", "GetSolids",
      "ExecuteBooleanOperation", "GetDependentElements", "MakeSolid" }

Tiers == { "solid", "dependent", "bounding" }

Count(ops, op, k) == [ ops EXCEPT ![op] = @ + k ]

\* ------------------------------------------------- points and outlines

\* DB.XYZ, with X for the horizontal coordinates and Z for the height.
XYZ(x, z) == [ X |-> x, Z |-> z ]

\* XYZ.Add
AddXYZ(p, q) == XYZ(p.X + q.X, p.Z + q.Z)

Smaller(a, b) == IF a <= b THEN a ELSE b

Larger(a, b) == IF a >= b THEN a ELSE b

\* DB.Outline(minimumPoint, maximumPoint)
Outline(minimumPoint, maximumPoint) ==
    [ MinimumPoint |-> minimumPoint, MaximumPoint |-> maximumPoint ]

\* No outline has been built.
NoOutline == Outline(XYZ(0, 0), XYZ(-1, -1))

\* Outline.AddPoint: the outline grows to hold the point.
AddPoint(outline, p) ==
    Outline(XYZ(Smaller(outline.MinimumPoint.X, p.X),
                Smaller(outline.MinimumPoint.Z, p.Z)),
            XYZ(Larger(outline.MaximumPoint.X, p.X),
                Larger(outline.MaximumPoint.Z, p.Z)))

\* The bounding box grown by offset on every axis.
ExpandedOutline(shape) ==
    Outline(AddXYZ(shape.Min, XYZ(0 - shape.offset, 0 - shape.offset)),
            AddXYZ(shape.Max, XYZ(shape.offset, shape.offset)))

\* curve.GetEndPoint(-1): the host API documents the indices 0 and 1 only;
\* the call raises or answers a point.
GetEndPointRaises(shape) ==
    shape.location = "curve" /\ shape.curveEnd = "raises"

\* elementPoint of _ProjectToLevel is not None.
HasElementPoint(shape) == shape.location \in { "curve", "point" }

\* _ProjectToLevel for an element on which GetEndPoint does not raise.  The
\* point is added in the branch of an element without LevelId, at the
\* height of the element point.
ProjectToLevel(outline, shape) ==
    IF HasElementPoint(shape)
    THEN IF shape.hasLevelId
         THEN outline
         ELSE AddPoint(outline, XYZ(shape.point.X, shape.point.Z))
    ELSE outline

\* if projectToLevel and element.Location is not None
Projects(shape) == shape.projectToLevel /\ shape.location # "none"

\* The local elementOutline after the projection.
BuiltOutline(shape) ==
    IF Projects(shape)
    THEN ProjectToLevel(ExpandedOutline(shape), shape)
    ELSE ExpandedOutline(shape)

\* transform.Inverse.OfPoint for a link placed by a translation along X.
InverseOfPoint(shape, p) == XYZ(p.X - shape.shift, p.Z)

\* transformedOutline of GetElementRoomsFromLink
TransformedOutline(shape, outline) ==
    Outline(InverseOfPoint(shape, outline.MinimumPoint),
            InverseOfPoint(shape, outline.MaximumPoint))

\* The corners MakeSolid extrudes the rectangle between.
MakeSolid(minPoint, maxPoint) == Outline(minPoint, maxPoint)

\* The element shapes of the model: a bounding box from (2, 2) to (3, 3),
\* a location point inside or beside it, a level below it or at its foot.
BoxMin == XYZ(2, 2)
BoxMax == XYZ(3, 3)

Shapes ==
    { sh \in [ Min : { BoxMin }, Max : { BoxMax }, offset : { 0, 1 },
               projectToLevel : BOOLEAN,
               location : { "none", "curve", "point", "other" },
               curveEnd : { "point", "raises" },
               point : { XYZ(2, 3), XYZ(5, 3) },
               hasLevelId : BOOLEAN, levelFound : BOOLEAN,
               elevation : { 0, 2 }, shift : { 0, 2 } ] :
        /\ sh.location # "curve" => sh.curveEnd = "point"
        /\ ~ sh.levelFound => sh.elevation = 0 }

\* A family instance with a location point in its bounding box, on a level
\* below it.
FamilyInstance(offset, shift) ==
    [ Min |-> BoxMin, Max |-> BoxMax, offset |-> offset,
      projectToLevel |-> TRUE, location |-> "point", curveEnd |-> "point",
      point |-> XYZ(2, 3), hasLevelId |-> TRUE, levelFound |-> TRUE,
      elevation |-> 0, shift |-> shift ]

\* A curve-based element on whose curve GetEndPoint(-1) raises.
CurveElement(offset, shift) ==
    [ FamilyInstance(offset, shift) EXCEPT
        !.location = "curve", !.curveEnd = "raises" ]

\* The shapes of the calls of GetElementRooms: a family instance with
\* offset 0 or 1, a curve-based element.
HostShapes ==
    { FamilyInstance(0, 0), FamilyInstance(1, 0), CurveElement(1, 0) }

ResolverLocalsAtEntry ==
    /\ elementOutline = NoOutline
    /\ filterOutline = NoOutline
    /\ solidBox = NoOutline
    /\ bbox = "unread"
    /\ rooms = << >>
    /\ elementSolids = -1
    /\ cursor = 0
    /\ matchedRooms = << >>
    /\ roomMatchVolumes = EmptyDict
    /\ result = << >>
    /\ outcome = ""
    /\ roomSolidCount = [ r \in Rooms |-> -1 ]
    /\ overlaps = {}
    /\ probeVolume = EmptyDict
    /\ opCount = [ op \in GeometryOps |-> 0 ]
    /\ tiersRun = << >>
    /\ tierResult = [ t \in Tiers |-> << >> ]
    /\ liveSolids = 0

\* ------------------------------------------------------------------ actions

\* Every model of NumDoors doors over Rooms, every selection, the optional
\* arguments all omitted or all given.  The graph construction treats
\* ToRoom and FromRoom alike (AddDoor is symmetric in t and f), so of a pair
\* and its swap only one is drawn.
DoorInputs ==
    /\ toRoom \in [ Doors -> Rooms \cup { NoRoom } ]
    /\ fromRoom \in [ Doors -> Rooms \cup { NoRoom } ]
    /\ \A d \in Doors : fromRoom[d] <= toRoom[d]
    /\ roomArea \in [ Rooms -> Areas ]
    /\ doors \in SUBSET Doors
    /\ \/ prefix = ArgNone /\ seperator = ArgNone /\ suffixList = ArgNone
       \/ /\ prefix = CustomPrefix
          /\ seperator = CustomSeperator
          /\ suffixList = CustomSuffixList
    /\ mark = [ d \in Doors |-> InitialMark(d) ]

CallStart ==
    /\ pc = "start"
    /\ doorsByRoom = EmptyDict
    /\ doorConnectors = EmptyDict
    /\ maxLength = 0
    /\ numberedDoors = {}
    /\ i = 0
    /\ n = 0
    /\ nMax = 0
    /\ assigned = << >>
    /\ rounds = << >>
    /\ exitBy = "none"
    /\ returned = NotReturned

\* No call of the resolver is in progress.
ResolverIdle ==
    /\ roomsGiven = FALSE
    /\ roomsArg = << >>
    /\ eHasToRoom = FALSE
    /\ eToRoom = NoRoom
    /\ eFromRoom = NoRoom
    /\ eHasRoom = FALSE
    /\ eRoom = NoRoom
    /\ eBoundingBox = "enabled"
    /\ boxHits = {}
    /\ eShape = FamilyInstance(1, 0)
    /\ rpc = "idle"
    /\ ResolverLocalsAtEntry

Init ==
    /\ DoorInputs
    /\ CallStart
    /\ markBefore = mark
    /\ run = 1
    /\ firstRunMark = mark
    /\ ResolverIdle

\* Lines 535-599 when some door has a room: the graph, the connector
\* scores, maxLength and the loop counters.
BuildGraph ==
    /\ pc = "start"
    /\ LET dbr == BuildDoorsByRoom(EmptyDict, 1)
       IN /\ DOMAIN dbr # {}
          /\ doorConnectors' = BuildDoorConnectors(dbr)
          /\ maxLength' = Max({ Len(dbr[r].doors) : r \in DOMAIN dbr })
          /\ doorsByRoom' = WithDoorCounts(dbr)
    /\ numberedDoors' = {}
    /\ i' = 1
    /\ n' = 0
    /\ nMax' = IterationCap(Cardinality(doors))
    /\ pc' = "loop"
    /\ UNCHANGED << toRoom, fromRoom, roomArea, mark, doors,
                    prefix, seperator, suffixList, markBefore, assigned,
                    rounds, exitBy, returned, run, firstRunMark >>
    /\ UNCHANGED resolverVars

\* Line 589 when no door has a room: max() of an empty list raises
\* ValueError, which nothing catches.
BuildGraphRaises ==
    /\ pc = "start"
    /\ LET dbr == BuildDoorsByRoom(EmptyDict, 1)
       IN /\ DOMAIN dbr = {}
          /\ doorsByRoom' = dbr
          /\ doorConnectors' = BuildDoorConnectors(dbr)
    /\ pc' = "raised"
    /\ UNCHANGED << toRoom, fromRoom, roomArea, mark, doors,
                    prefix, seperator, suffixList, maxLength, numberedDoors,
                    i, n, nMax, markBefore, assigned, rounds, exitBy,
                    returned, run, firstRunMark >>
    /\ UNCHANGED resolverVars

\* One pass of the while loop, lines 607-668.
NumberLevel ==
    /\ pc = "loop"
    /\ i <= maxLength
    /\ ~ (n > nMax)
    /\ LET round == Len(rounds) + 1
           roomsThisRound == RoomsThisRound(doorsByRoom, i)
           st == NumberRooms([ numbered |-> numberedDoors, mark |-> mark,
                               assigned |-> assigned ],
                             doorsByRoom, roomsThisRound, i, round)
           noRooms == roomsThisRound = << >>
       IN /\ numberedDoors' = st.numbered
          /\ mark' = st.mark
          /\ assigned' = st.assigned
          /\ doorsByRoom' = Recount(doorsByRoom, st.numbered)
          /\ i' = NextLevel(i, noRooms)
          /\ n' = CountPass(n, noRooms)
          /\ rounds' = Append(rounds,
                         [ level |-> i, n |-> n, rooms |-> roomsThisRound,
                           counts |-> [ r \in DOMAIN doorsByRoom |->
                                          doorsByRoom[r].doorCount ],
                           lists |-> [ r \in DOMAIN doorsByRoom |->
                                         doorsByRoom[r].doors ] ])
    /\ UNCHANGED << toRoom, fromRoom, roomArea, doors, prefix,
                    seperator, suffixList, pc, doorConnectors, maxLength,
                    nMax, markBefore, exitBy, returned, run, firstRunMark >>
    /\ UNCHANGED resolverVars

\* The while condition fails: return doors.
LevelsExhausted ==
    /\ pc = "loop"
    /\ ~ (i <= maxLength)
    /\ pc' = "done"
    /\ exitBy' = "level"
    /\ returned' = ReturnValue
    /\ firstRunMark' = IF run = 1 THEN mark ELSE firstRunMark
    /\ UNCHANGED << toRoom, fromRoom, roomArea, mark, doors,
                    prefix, seperator, suffixList, doorsByRoom,
                    doorConnectors, maxLength, numberedDoors, i, n, nMax,
                    markBefore, assigned, rounds, run >>
    /\ UNCHANGED resolverVars

\* if n > nMax: break, then return doors.
CapReached ==
    /\ pc = "loop"
    /\ i <= maxLength
    /\ n > nMax
    /\ pc' = "done"
    /\ exitBy' = "cap"
    /\ returned' = ReturnValue
    /\ firstRunMark' = IF run = 1 THEN mark ELSE firstRunMark
    /\ UNCHANGED << toRoom, fromRoom, roomArea, mark, doors,
                    prefix, seperator, suffixList, doorsByRoom,
                    doorConnectors, maxLength, numberedDoors, i, n, nMax,
                    markBefore, assigned, rounds, run >>
    /\ UNCHANGED resolverVars

Next ==
    \/ BuildGraph
    \/ BuildGraphRaises
    \/ NumberLevel
    \/ LevelsExhausted
    \/ CapReached

\* One call of DoorRenameByRoomNumber on every model and selection.
Spec == Init /\ [][Next]_vars

\* A second call with the same arguments on the model the first left.
CallAgain ==
    /\ pc \in { "done", "raised" }
    /\ run = 1
    /\ run' = 2
    /\ pc' = "start"
    /\ doorsByRoom' = EmptyDict
    /\ doorConnectors' = EmptyDict
    /\ maxLength' = 0
    /\ numberedDoors' = {}
    /\ i' = 0
    /\ n' = 0
    /\ nMax' = 0
    /\ assigned' = << >>
    /\ rounds' = << >>
    /\ exitBy' = "none"
    /\ returned' = NotReturned
    /\ markBefore' = mark
    /\ UNCHANGED << toRoom, fromRoom, roomArea, mark, doors, prefix,
                    seperator, suffixList, firstRunMark >>
    /\ UNCHANGED resolverVars

NextTwice ==
    \/ Next
    \/ CallAgain

\* Two calls of DoorRenameByRoomNumber in a row.
SpecTwice == Init /\ [][NextTwice]_vars

\* A call on a part of the selection of the first call, on the model as it
\* was before the first call.
CallOnPart ==
    /\ pc \in { "done", "raised" }
    /\ run = 1
    /\ run' = 2
    /\ pc' = "start"
    /\ \E part \in SUBSET doors : doors' = part
    /\ mark' = markBefore
    /\ doorsByRoom' = EmptyDict
    /\ doorConnectors' = EmptyDict
    /\ maxLength' = 0
    /\ numberedDoors' = {}
    /\ i' = 0
    /\ n' = 0
    /\ nMax' = 0
    /\ assigned' = << >>
    /\ rounds' = << >>
    /\ exitBy' = "none"
    /\ returned' = NotReturned
    /\ UNCHANGED << toRoom, fromRoom, roomArea, prefix, seperator,
                    suffixList, markBefore, firstRunMark >>
    /\ UNCHANGED resolverVars

NextPair ==
    \/ Next
    \/ CallOnPart

\* Two calls of DoorRenameByRoomNumber on the same model, the second with
\* a selection contained in the selection of the first.
SpecPair == Init /\ [][NextPair]_vars

\* --------------------------------------------- actions of the room resolver

\* The door numbering is not running.
DoorIdle ==
    /\ toRoom = [ d \in Doors |-> NoRoom ]
    /\ fromRoom = [ d \in Doors |-> NoRoom ]
    /\ roomArea = [ r \in Rooms |-> 1 ]
    /\ mark = [ d \in Doors |-> InitialMark(d) ]
    /\ doors = {}
    /\ prefix = ArgNone
    /\ seperator = ArgNone
    /\ suffixList = ArgNone
    /\ pc = "idle"
    /\ doorsByRoom = EmptyDict
    /\ doorConnectors = EmptyDict
    /\ maxLength = 0
    /\ numberedDoors = {}
    /\ i = 0
    /\ n = 0
    /\ nMax = 0
    /\ assigned = << >>
    /\ rounds = << >>
    /\ exitBy = "none"
    /\ returned = NotReturned
    /\ markBefore = mark
    /\ run = 1
    /\ firstRunMark = mark

\* The element and the arguments of one call of GetElementRooms: the rooms
\* argument omitted or a list, the self-reported rooms of the element.
ResolverInputs ==
    /\ roomsGiven \in BOOLEAN
    /\ roomsArg \in { SetToSeq(S) : S \in SUBSET Rooms }
    /\ ~ roomsGiven => roomsArg = << >>
    /\ eHasToRoom \in BOOLEAN
    /\ eToRoom \in Rooms \cup { NoRoom }
    /\ eFromRoom \in Rooms \cup { NoRoom }
    /\ ~ eHasToRoom => (eToRoom = NoRoom /\ eFromRoom = NoRoom)
    /\ eHasRoom \in BOOLEAN
    /\ eRoom \in Rooms \cup { NoRoom }
    /\ ~ eHasRoom => eRoom = NoRoom
    /\ eBoundingBox \in { "none", "disabled", "enabled" }
    /\ boxHits \in SUBSET Rooms
    /\ eShape \in HostShapes

InitResolver ==
    /\ DoorIdle
    /\ ResolverInputs
    /\ rpc = "call"
    /\ ResolverLocalsAtEntry

rArgs ==
    << roomsGiven, roomsArg, eHasToRoom, eToRoom, eFromRoom, eHasRoom, eRoom,
       eBoundingBox, boxHits, eShape >>

outlineVars == << elementOutline, filterOutline, solidBox >>

\* toRoom = [(element.ToRoom)[phase]]; if fromRoom: toRoom.append(fromRoom)
ToRoomList ==
    << eToRoom >> \o (IF eFromRoom # NoRoom THEN << eFromRoom >> ELSE << >>)

\* all(toRoom)
AllTruthy(list) == \A k \in 1 .. Len(list) : list[k] # NoRoom

\* if hasattr(interSolid, "Volume") and abs(interSolid.Volume > 0.000001)
IntersectMatches(volume) == volume # KernelFails /\ volume > Epsilon

\* A resolver that runs every tier whatever the earlier ones matched.
AlwaysNextTier(matched) == TRUE

\* if not matchedRooms
NoMatches(matched) == matched = << >>

\* The rooms the collector filters: the rooms argument when it is a
\* non-empty list (`if rooms:`), every room of the document otherwise.
CandidatePool == IF roomsArg # << >> THEN Range(roomsArg) ELSE Rooms

\* A resolver that keeps the room of the smallest volume.
SmallestVolumeRoom(rmv) ==
    rmv[CHOOSE k \in DOMAIN rmv : \A l \in DOMAIN rmv : k <= l]

\* roomMatchVolumes[max(roomMatchVolumes.keys())]
LargestVolumeRoom(rmv) == rmv[Max(DOMAIN rmv)]

\* roomMatchVolumes[volume] = room
DictSet(d, key, value) ==
    [ k \in DOMAIN d \cup { key } |-> IF k = key THEN value ELSE d[k] ]

\* [room] * times
RECURSIVE Repeat(_, _)
Repeat(x, times) == IF times = 0 THEN << >> ELSE << x >> \o Repeat(x, times - 1)

\* Lines 923-928 with rooms=None: len(rooms) in the debug message raises.
LogCallRaises ==
    /\ rpc = "call"
    /\ ~ roomsGiven
    /\ rpc' = "raised"
    /\ outcome' = "TypeError"
    /\ UNCHANGED << rArgs, bbox, rooms, elementSolids, cursor, matchedRooms,
                    roomMatchVolumes, result, roomSolidCount, overlaps,
                    probeVolume, opCount, tiersRun, tierResult, liveSolids >>
    /\ UNCHANGED outlineVars
    /\ UNCHANGED doorVars

\* Lines 923-930 with a rooms list.
LogCall ==
    /\ rpc = "call"
    /\ roomsGiven
    /\ rpc' = "selfReport"
    /\ UNCHANGED << rArgs, bbox, rooms, elementSolids, cursor, matchedRooms,
                    roomMatchVolumes, result, outcome, roomSolidCount,
                    overlaps, probeVolume, opCount, tiersRun, tierResult,
                    liveSolids >>
    /\ UNCHANGED outlineVars
    /\ UNCHANGED doorVars

\* Lines 933-940: the element reports ToRoom (and FromRoom).
SelfReportToRoom ==
    /\ rpc = "selfReport"
    /\ eHasToRoom
    /\ AllTruthy(ToRoomList)
    /\ result' = ToRoomList
    /\ outcome' = "list"
    /\ rpc' = "returned"
    /\ UNCHANGED << rArgs, bbox, rooms, elementSolids, cursor, matchedRooms,
                    roomMatchVolumes, roomSolidCount, overlaps, probeVolume,
                    opCount, tiersRun, tierResult, liveSolids >>
    /\ UNCHANGED outlineVars
    /\ UNCHANGED doorVars

\* Lines 941-945: the element reports Room.
SelfReportRoom ==
    /\ rpc = "selfReport"
    /\ ~ (eHasToRoom /\ AllTruthy(ToRoomList))
    /\ eHasRoom
    /\ eRoom # NoRoom
    /\ result' = << eRoom >>
    /\ outcome' = "list"
    /\ rpc' = "returned"
    /\ UNCHANGED << rArgs, bbox, rooms, elementSolids, cursor, matchedRooms,
                    roomMatchVolumes, roomSolidCount, overlaps, probeVolume,
                    opCount, tiersRun, tierResult, liveSolids >>
    /\ UNCHANGED outlineVars
    /\ UNCHANGED doorVars

\* Line 947: no self-reported room, on to the geometry.
NoSelfReport ==
    /\ rpc = "selfReport"
    /\ ~ (eHasToRoom /\ AllTruthy(ToRoomList))
    /\ ~ (eHasRoom /\ eRoom # NoRoom)
    /\ rpc' = "bbox"
    /\ UNCHANGED << rArgs, bbox, rooms, elementSolids, cursor, matchedRooms,
                    roomMatchVolumes, result, outcome, roomSolidCount,
                    overlaps, probeVolume, opCount, tiersRun, tierResult,
                    liveSolids >>
    /\ UNCHANGED outlineVars
    /\ UNCHANGED doorVars

\* Lines 950-951 for an element without a bounding box: get_BoundingBox
\* returns None and None.Enabled raises.
BoundingBoxMissing ==
    /\ rpc = "bbox"
    /\ eBoundingBox = "none"
    /\ bbox' = "none"
    /\ opCount' = Count(opCount, "get_BoundingBox", 1)
    /\ rpc' = "raised"
    /\ outcome' = "AttributeError"
    /\ UNCHANGED << rArgs, rooms, elementSolids, cursor, matchedRooms,
                    roomMatchVolumes, result, roomSolidCount, overlaps,
                    probeVolume, tiersRun, tierResult, liveSolids >>
    /\ UNCHANGED outlineVars
    /\ UNCHANGED doorVars

\* Lines 950-953: the bounding box is not enabled, return (None).
BoundingBoxDisabled ==
    /\ rpc = "bbox"
    /\ eBoundingBox = "disabled"
    /\ bbox' = "disabled"
    /\ opCount' = Count(opCount, "get_BoundingBox", 1)
    /\ rpc' = "returned"
    /\ outcome' = "None"
    /\ UNCHANGED << rArgs, rooms, elementSolids, cursor, matchedRooms,
                    roomMatchVolumes, result, roomSolidCount, overlaps,
                    probeVolume, tiersRun, tierResult, liveSolids >>
    /\ UNCHANGED outlineVars
    /\ UNCHANGED doorVars

\* Lines 950-962: an enabled bounding box, expanded by offset and projected
\* to the level.
BoundingBoxEnabled ==
    /\ rpc = "bbox"
    /\ eBoundingBox = "enabled"
    /\ ~ (Projects(eShape) /\ GetEndPointRaises(eShape))
    /\ bbox' = "enabled"
    /\ opCount' = Count(opCount, "get_BoundingBox", 1)
    /\ elementOutline' = BuiltOutline(eShape)
    /\ filterOutline' = BuiltOutline(eShape)
    /\ rpc' = "query"
    /\ UNCHANGED << rArgs, rooms, elementSolids, cursor, matchedRooms,
                    roomMatchVolumes, result, outcome, roomSolidCount,
                    overlaps, probeVolume, tiersRun, tierResult, liveSolids,
                    solidBox >>
    /\ UNCHANGED doorVars

\* Lines 950-962 and 821-823 when curve.GetEndPoint(-1) raises.
ProjectToLevelRaises ==
    /\ rpc = "bbox"
    /\ eBoundingBox = "enabled"
    /\ Projects(eShape)
    /\ GetEndPointRaises(eShape)
    /\ bbox' = "enabled"
    /\ opCount' = Count(opCount, "get_BoundingBox", 1)
    /\ elementOutline' = ExpandedOutline(eShape)
    /\ rpc' = "raised"
    /\ outcome' = "ArgumentException"
    /\ UNCHANGED << rArgs, rooms, elementSolids, cursor, matchedRooms,
                    roomMatchVolumes, result, roomSolidCount, overlaps,
                    probeVolume, tiersRun, tierResult, liveSolids,
                    filterOutline, solidBox >>
    /\ UNCHANGED doorVars

\* Lines 964-988: the rooms of the pool whose bounding box intersects the
\* outline, in the collector's order.
QueryRooms ==
    /\ rpc = "query"
    /\ rooms' = SetToSeq(CandidatePool \cap boxHits)
    /\ opCount' = Count(opCount, "BoundingBoxIntersectsFilter", 1)
    /\ rpc' = "solids"
    /\ UNCHANGED << rArgs, bbox, elementSolids, cursor, matchedRooms,
                    roomMatchVolumes, result, outcome, roomSolidCount,
                    overlaps, probeVolume, tiersRun, tierResult, liveSolids >>
    /\ UNCHANGED outlineVars
    /\ UNCHANGED doorVars

\* Line 989 and the entry of _GetMatchingRooms, lines 994-1000.
ReadElementSolids ==
    /\ rpc = "solids"
    /\ \E k \in 0 .. MaxSolids : elementSolids' = k
    /\ opCount' = Count(opCount, "GetSolids", 1)
    /\ matchedRooms' = << >>
    /\ cursor' = 1
    /\ tiersRun' = << "solid" >>
    /\ rpc' = "tier3"
    /\ UNCHANGED << rArgs, bbox, rooms, roomMatchVolumes, result, outcome,
                    roomSolidCount, overlaps, probeVolume, tierResult,
                    liveSolids >>
    /\ UNCHANGED outlineVars
    /\ UNCHANGED doorVars

\* One pass of the loop of lines 1001-1006 over a room without solids:
\* GetSolids(room)[0] raises IndexError.
SolidTierRoomRaises ==
    /\ rpc = "tier3"
    /\ cursor <= Len(rooms)
    /\ roomSolidCount[rooms[cursor]] = -1
    /\ roomSolidCount' = [ roomSolidCount EXCEPT ![rooms[cursor]] = 0 ]
    /\ opCount' = Count(opCount, "GetSolids", 1)
    /\ rpc' = "raised"
    /\ outcome' = "IndexError"
    /\ UNCHANGED << rArgs, bbox, rooms, elementSolids, cursor, matchedRooms,
                    roomMatchVolumes, result, overlaps, probeVolume,
                    tiersRun, tierResult, liveSolids >>
    /\ UNCHANGED outlineVars
    /\ UNCHANGED doorVars

\* One pass of the loop of lines 1001-1006: the room's first solid against
\* every element solid.  volumes are the kernel's answers for the first
\* solid; other says whether another solid of the room overlaps the element.
SolidTierRoom ==
    /\ rpc = "tier3"
    /\ cursor <= Len(rooms)
    /\ LET room == rooms[cursor]
       IN \E m \in 1 .. MaxSolids :
          \E volumes \in [ 1 .. elementSolids -> Volumes \cup { KernelFails } ] :
          \E other \in BOOLEAN :
            /\ other => (m > 1 /\ elementSolids > 0)
            /\ roomSolidCount' = [ roomSolidCount EXCEPT ![room] = m ]
            /\ LET hits == { k \in 1 .. elementSolids :
                               IntersectMatches(volumes[k]) }
               IN /\ matchedRooms' =
                       matchedRooms \o Repeat(room, Cardinality(hits))
                  /\ overlaps' =
                       IF other \/ \E k \in 1 .. elementSolids :
                                     volumes[k] > Epsilon
                       THEN overlaps \cup { room } ELSE overlaps
    /\ opCount' = Count(Count(opCount, "GetSolids", 1 + elementSolids),
                        "ExecuteBooleanOperation", elementSolids)
    /\ cursor' = cursor + 1
    /\ UNCHANGED << rArgs, bbox, rooms, elementSolids, roomMatchVolumes,
                    result, outcome, probeVolume, tiersRun, tierResult,
                    liveSolids, rpc >>
    /\ UNCHANGED outlineVars
    /\ UNCHANGED doorVars

\* Line 1008 after the solid tier matched a room: return matchedRooms.
SolidTierMatched ==
    /\ rpc = "tier3"
    /\ cursor > Len(rooms)
    /\ ~ NoMatches(matchedRooms)
    /\ tierResult' = [ tierResult EXCEPT !["solid"] = matchedRooms ]
    /\ result' = matchedRooms
    /\ outcome' = "list"
    /\ rpc' = "returned"
    /\ UNCHANGED << rArgs, bbox, rooms, elementSolids, cursor, matchedRooms,
                    roomMatchVolumes, roomSolidCount, overlaps, probeVolume,
                    opCount, tiersRun, liveSolids >>
    /\ UNCHANGED outlineVars
    /\ UNCHANGED doorVars

\* Lines 1008-1009: no match, on to the dependent elements.
SolidTierEmpty ==
    /\ rpc = "tier3"
    /\ cursor > Len(rooms)
    /\ NoMatches(matchedRooms)
    /\ tierResult' = [ tierResult EXCEPT !["solid"] = matchedRooms ]
    /\ tiersRun' = Append(tiersRun, "dependent")
    /\ cursor' = 1
    /\ rpc' = "tier4"
    /\ UNCHANGED << rArgs, bbox, rooms, elementSolids, matchedRooms,
                    roomMatchVolumes, result, outcome, roomSolidCount,
                    overlaps, probeVolume, opCount, liveSolids >>
    /\ UNCHANGED outlineVars
    /\ UNCHANGED doorVars

\* One pass of the loop of lines 1010-1017; dependent says whether the
\* element has dependent elements that intersect the room's first solid.
DependentTierRoom ==
    /\ rpc = "tier4"
    /\ cursor <= Len(rooms)
    /\ \E dependent \in BOOLEAN :
         matchedRooms' = IF dependent
                         THEN Append(matchedRooms, rooms[cursor])
                         ELSE matchedRooms
    /\ opCount' = Count(Count(opCount, "GetSolids", 1),
                        "GetDependentElements", 1)
    /\ cursor' = cursor + 1
    /\ UNCHANGED << rArgs, bbox, rooms, elementSolids, roomMatchVolumes,
                    result, outcome, roomSolidCount, overlaps, probeVolume,
                    tiersRun, tierResult, liveSolids, rpc >>
    /\ UNCHANGED outlineVars
    /\ UNCHANGED doorVars

\* Line 1019 after the dependent tier matched a room: return matchedRooms.
DependentTierMatched ==
    /\ rpc = "tier4"
    /\ cursor > Len(rooms)
    /\ ~ NoMatches(matchedRooms)
    /\ tierResult' = [ tierResult EXCEPT !["dependent"] = matchedRooms ]
    /\ result' = matchedRooms
    /\ outcome' = "list"
    /\ rpc' = "returned"
    /\ UNCHANGED << rArgs, bbox, rooms, elementSolids, cursor, matchedRooms,
                    roomMatchVolumes, roomSolidCount, overlaps, probeVolume,
                    opCount, tiersRun, liveSolids >>
    /\ UNCHANGED outlineVars
    /\ UNCHANGED doorVars

\* Lines 1019-1024: no match, MakeSolid builds the solid of the outline.
DependentTierEmpty ==
    /\ rpc = "tier4"
    /\ cursor > Len(rooms)
    /\ NoMatches(matchedRooms)
    /\ tierResult' = [ tierResult EXCEPT !["dependent"] = matchedRooms ]
    /\ tiersRun' = Append(tiersRun, "bounding")
    /\ opCount' = Count(opCount, "MakeSolid", 1)
    /\ liveSolids' = liveSolids + 1
    /\ solidBox' = MakeSolid(elementOutline.MinimumPoint,
                             elementOutline.MaximumPoint)
    /\ roomMatchVolumes' = EmptyDict
    /\ cursor' = 1
    /\ rpc' = "tier5"
    /\ UNCHANGED << rArgs, bbox, rooms, elementSolids, matchedRooms, result,
                    outcome, roomSolidCount, overlaps, probeVolume >>
    /\ UNCHANGED << elementOutline, filterOutline >>
    /\ UNCHANGED doorVars

\* One pass of the loop of lines 1025-1028: the room's first solid against
\* the solid of the outline.
BoundingTierRoom ==
    /\ rpc = "tier5"
    /\ cursor <= Len(rooms)
    /\ \E volume \in Volumes \cup { KernelFails } :
         /\ probeVolume' = DictSet(probeVolume, rooms[cursor], volume)
         /\ roomMatchVolumes' =
              IF IntersectMatches(volume)
              THEN DictSet(roomMatchVolumes, volume, rooms[cursor])
              ELSE roomMatchVolumes
    /\ opCount' = Count(Count(opCount, "GetSolids", 1),
                        "ExecuteBooleanOperation", 1)
    /\ cursor' = cursor + 1
    /\ UNCHANGED << rArgs, bbox, rooms, elementSolids, matchedRooms, result,
                    outcome, roomSolidCount, overlaps, tiersRun, tierResult,
                    liveSolids, rpc >>
    /\ UNCHANGED outlineVars
    /\ UNCHANGED doorVars

\* Lines 1030-1033: keep the room of the largest volume and return.
BoundingTierDone ==
    /\ rpc = "tier5"
    /\ cursor > Len(rooms)
    /\ LET final == IF DOMAIN roomMatchVolumes # {}
                    THEN << LargestVolumeRoom(roomMatchVolumes) >>
                    ELSE matchedRooms
       IN /\ matchedRooms' = final
          /\ tierResult' = [ tierResult EXCEPT !["bounding"] = final ]
          /\ result' = final
    /\ outcome' = "list"
    /\ rpc' = "returned"
    /\ UNCHANGED << rArgs, bbox, rooms, elementSolids, cursor,
                    roomMatchVolumes, roomSolidCount, overlaps, probeVolume,
                    opCount, tiersRun, liveSolids >>
    /\ UNCHANGED outlineVars
    /\ UNCHANGED doorVars

NextResolver ==
    \/ LogCallRaises
    \/ LogCall
    \/ SelfReportToRoom
    \/ SelfReportRoom
    \/ NoSelfReport
    \/ BoundingBoxMissing
    \/ BoundingBoxDisabled
    \/ BoundingBoxEnabled
    \/ ProjectToLevelRaises
    \/ QueryRooms
    \/ ReadElementSolids
    \/ SolidTierRoomRaises
    \/ SolidTierRoom
    \/ SolidTierMatched
    \/ SolidTierEmpty
    \/ DependentTierRoom
    \/ DependentTierMatched
    \/ DependentTierEmpty
    \/ BoundingTierRoom
    \/ BoundingTierDone

\* One call of GetElementRooms on every element, rooms argument and answer
\* of the host model and the geometry kernel.
SpecResolver == InitResolver /\ [][NextResolver]_vars

\* --------------------------------------------- GetElementRoomsFromLink

\* The shapes of the calls of GetElementRoomsFromLink: a family instance,
\* the link placed at the origin or moved along X; a curve-based element.
LinkShapes ==
    { FamilyInstance(1, 0), FamilyInstance(1, 2), CurveElement(1, 2) }

\* The element and the arguments of one call of GetElementRoomsFromLink;
\* roomsArg is roomsFromLink, boxHits the rooms of the link whose bounding
\* box intersects the transformed outline.
LinkInputs ==
    /\ roomsGiven \in BOOLEAN
    /\ roomsArg \in { SetToSeq(S) : S \in SUBSET Rooms }
    /\ ~ roomsGiven => roomsArg = << >>
    /\ eHasToRoom = FALSE
    /\ eToRoom = NoRoom
    /\ eFromRoom = NoRoom
    /\ eHasRoom \in BOOLEAN
    /\ eRoom \in Rooms \cup { NoRoom }
    /\ eHasRoom <=> eRoom = 1
    /\ eBoundingBox \in { "none", "disabled", "enabled" }
    /\ boxHits \in SUBSET Rooms
    /\ eShape \in LinkShapes

InitLink ==
    /\ DoorIdle
    /\ LinkInputs
    /\ rpc = "linkCall"
    /\ ResolverLocalsAtEntry

\* Lines 851-852 for an element without a bounding box.
LinkBoundingBoxMissing ==
    /\ rpc = "linkCall"
    /\ eBoundingBox = "none"
    /\ bbox' = "none"
    /\ opCount' = Count(opCount, "get_BoundingBox", 1)
    /\ rpc' = "raised"
    /\ outcome' = "AttributeError"
    /\ UNCHANGED << rArgs, rooms, elementSolids, cursor, matchedRooms,
                    roomMatchVolumes, result, roomSolidCount, overlaps,
                    probeVolume, tiersRun, tierResult, liveSolids >>
    /\ UNCHANGED outlineVars
    /\ UNCHANGED doorVars

\* Lines 851-854: the bounding box is not enabled, return (None).
LinkBoundingBoxDisabled ==
    /\ rpc = "linkCall"
    /\ eBoundingBox = "disabled"
    /\ bbox' = "disabled"
    /\ opCount' = Count(opCount, "get_BoundingBox", 1)
    /\ rpc' = "returned"
    /\ outcome' = "None"
    /\ UNCHANGED << rArgs, rooms, elementSolids, cursor, matchedRooms,
                    roomMatchVolumes, result, roomSolidCount, overlaps,
                    probeVolume, tiersRun, tierResult, liveSolids >>
    /\ UNCHANGED outlineVars
    /\ UNCHANGED doorVars

\* Lines 851-870: the outline, projected, and the outline transformed to
\* the link for the filter.
LinkBoundingBoxEnabled ==
    /\ rpc = "linkCall"
    /\ eBoundingBox = "enabled"
    /\ ~ (Projects(eShape) /\ GetEndPointRaises(eShape))
    /\ bbox' = "enabled"
    /\ opCount' = Count(opCount, "get_BoundingBox", 1)
    /\ elementOutline' = BuiltOutline(eShape)
    /\ filterOutline' = TransformedOutline(eShape, BuiltOutline(eShape))
    /\ rpc' = "linkQuery"
    /\ UNCHANGED << rArgs, rooms, elementSolids, cursor, matchedRooms,
                    roomMatchVolumes, result, outcome, roomSolidCount,
                    overlaps, probeVolume, tiersRun, tierResult, liveSolids,
                    solidBox >>
    /\ UNCHANGED doorVars

\* Lines 851-862 and 821-823 when curve.GetEndPoint(-1) raises.
LinkProjectToLevelRaises ==
    /\ rpc = "linkCall"
    /\ eBoundingBox = "enabled"
    /\ Projects(eShape)
    /\ GetEndPointRaises(eShape)
    /\ bbox' = "enabled"
    /\ opCount' = Count(opCount, "get_BoundingBox", 1)
    /\ elementOutline' = ExpandedOutline(eShape)
    /\ rpc' = "raised"
    /\ outcome' = "ArgumentException"
    /\ UNCHANGED << rArgs, rooms, elementSolids, cursor, matchedRooms,
                    roomMatchVolumes, result, roomSolidCount, overlaps,
                    probeVolume, tiersRun, tierResult, liveSolids,
                    filterOutline, solidBox >>
    /\ UNCHANGED doorVars

\* Lines 872-890: the rooms of roomsFromLink, or of the link document,
\* whose bounding box intersects the transformed outline.
LinkQueryRooms ==
    /\ rpc = "linkQuery"
    /\ rooms' = SetToSeq(CandidatePool \cap boxHits)
    /\ opCount' = Count(opCount, "BoundingBoxIntersectsFilter", 1)
    /\ rpc' = "linkSolids"
    /\ UNCHANGED << rArgs, bbox, elementSolids, cursor, matchedRooms,
                    roomMatchVolumes, result, outcome, roomSolidCount,
                    overlaps, probeVolume, tiersRun, tierResult, liveSolids >>
    /\ UNCHANGED outlineVars
    /\ UNCHANGED doorVars

\* Lines 891-892 and the entry of _GetMatchingRooms, lines 994-1000; the
\* outline passed on is elementOutline.
LinkReadElementSolids ==
    /\ rpc = "linkSolids"
    /\ \E k \in 0 .. MaxSolids : elementSolids' = k
    /\ opCount' = Count(opCount, "GetSolids", 1)
    /\ matchedRooms' = << >>
    /\ cursor' = 1
    /\ tiersRun' = << "solid" >>
    /\ rpc' = "tier3"
    /\ UNCHANGED << rArgs, bbox, rooms, roomMatchVolumes, result, outcome,
                    roomSolidCount, overlaps, probeVolume, tierResult,
                    liveSolids >>
    /\ UNCHANGED outlineVars
    /\ UNCHANGED doorVars

NextLink ==
    \/ LinkBoundingBoxMissing
    \/ LinkBoundingBoxDisabled
    \/ LinkBoundingBoxEnabled
    \/ LinkProjectToLevelRaises
    \/ LinkQueryRooms
    \/ LinkReadElementSolids
    \/ SolidTierRoomRaises
    \/ SolidTierRoom
    \/ SolidTierMatched
    \/ SolidTierEmpty
    \/ DependentTierRoom
    \/ DependentTierMatched
    \/ DependentTierEmpty
    \/ BoundingTierRoom
    \/ BoundingTierDone

\* One call of GetElementRoomsFromLink on every element, roomsFromLink
\* argument, link position and answer of the host model and the kernel.
SpecLink == InitLink /\ [][NextLink]_vars

\* The outline of GetElementRooms on every element shape: the call stands
\* at line 950, after the log and the self-report check of an element that
\* reports no room.
InitOutline ==
    /\ DoorIdle
    /\ roomsGiven = TRUE
    /\ roomsArg = << >>
    /\ eHasToRoom = FALSE
    /\ eToRoom = NoRoom
    /\ eFromRoom = NoRoom
    /\ eHasRoom = FALSE
    /\ eRoom = NoRoom
    /\ eBoundingBox = "enabled"
    /\ boxHits = {}
    /\ eShape \in { sh \in Shapes : sh.shift = 0 }
    /\ rpc = "bbox"
    /\ ResolverLocalsAtEntry

NextOutline ==
    \/ BoundingBoxEnabled
    \/ ProjectToLevelRaises

\* The outline construction of lines 950-962 on every element shape.
SpecOutline == InitOutline /\ [][NextOutline]_vars

\* ------------------------------------------------------ door numbering claims

\* The mark the last pass of the inner loop over `door` computed.
LastAssigned(door) ==
    LET ks == { k \in 1 .. Len(assigned) : assigned[k].door = door }
    IN assigned[Max(ks)].mark

\* C1: for every finite room/door graph and every selection the numbering
\* loop terminates and the function returns: no call ends in an exception
\* instead of a return.
C1_TerminatesAndReturns == pc # "raised"

\* C2: the mark parameter is written only on doors of the doors argument;
\* every other door keeps the mark it had when the call started, also when
\* it was counted in the graph and added to numberedDoors.
C2_OnlySelectedWritten ==
    /\ \A d \in Doors \ doors : mark[d] = markBefore[d]
    /\ \A k \in 1 .. Len(assigned) :
         assigned[k].written => assigned[k].door \in doors

C2_Witness ==
    /\ pc = "done"
    /\ \E d \in numberedDoors : d \notin doors
    /\ \E d \in doors : mark[d] # markBefore[d]

\* C3: when a room is processed, a single un-numbered door gets the bare
\* room number; with several un-numbered doors the door at position j gets
\* the room number followed by the j-th letter.
C3_MarkByRemainingDoors ==
    \A k \in 1 .. Len(assigned) :
      LET e == assigned[k]
      IN e.mark = IF e.distinct = 1
                  THEN RoomNumber(e.room)
                  ELSE RoomNumber(e.room) \o << ascii_uppercase[e.j + 1] >>

\* C4: every mark written starts with prefix, and a suffixed mark is
\* prefix + roomNumber + seperator + suffixList[j].
C4_ArgumentsDetermineMarks ==
    \A k \in 1 .. Len(assigned) :
      LET e == assigned[k]
      IN e.written =>
           e.mark = IF e.total > 1
                    THEN DefaultedPrefix \o RoomNumber(e.room)
                           \o DefaultedSeperator
                           \o << DefaultedSuffixList[e.j + 1] >>
                    ELSE DefaultedPrefix \o RoomNumber(e.room)

\* The model of the scenario: room 1 is Room 101 (the larger), room 2 is
\* Room 102; door 1 touches both, door 2 only Room 102, no other door has a
\* room; both doors are selected.
Scenario101And102 ==
    /\ roomArea[1] > roomArea[2]
    /\ { toRoom[1], fromRoom[1] } = { 1, 2 }
    /\ { toRoom[2], fromRoom[2] } = { 2, NoRoom }
    /\ \A d \in Doors \ { 1, 2 } : toRoom[d] = NoRoom /\ fromRoom[d] = NoRoom
    /\ { 1, 2 } \subseteq doors

\* Door d is the one remaining door of both rooms a and b in pass k, at
\* level 1, and a has the smaller area.
SharedAtLevelOne(k, a, b, d) ==
    /\ rounds[k].level = 1
    /\ a # b
    /\ rounds[k].lists[a] = << d >>
    /\ rounds[k].lists[b] = << d >>
    /\ roomArea[a] < roomArea[b]

C6_Idempotent ==
    (run = 2 /\ pc \in { "done", "raised" }) => mark = firstRunMark

C6_Witness ==
    /\ run = 2
    /\ pc = "done"
    /\ \E d \in doors : mark[d] # InitialMark(d)
    /\ \E d \in doors : mark[d] = InitialMark(d)

C8_EmptyGraphReturns ==
    (pc # "start" /\ DOMAIN doorsByRoom = {}) =>
      /\ pc = "done"
      /\ returned = doors
      /\ mark = markBefore

\* The level and the counter n the loop holds after pass k.
AfterPass(k) ==
    IF k < Len(rounds)
    THEN [ level |-> rounds[k + 1].level, n |-> rounds[k + 1].n ]
    ELSE [ level |-> i, n |-> n ]

\* C20 as stated: a pass in which no room is eligible at level i increments
\* i and leaves the counter n unchanged; only a pass in which a room was
\* eligible increments n.
C20_EmptyPassKeepsBudget ==
    \A k \in 1 .. Len(rounds) :
      IF rounds[k].rooms = << >>
      THEN /\ AfterPass(k).level = rounds[k].level + 1
           /\ AfterPass(k).n = rounds[k].n
      ELSE /\ AfterPass(k).level = rounds[k].level
           /\ AfterPass(k).n = rounds[k].n + 1

\* C20, amended: every pass of the loop increments the counter n by one; a
\* pass in which no room is eligible at level i also increments i, a pass
\* in which a room was eligible leaves i unchanged.
C20_EveryPassCounts ==
    \A k \in 1 .. Len(rounds) :
      /\ AfterPass(k).n = rounds[k].n + 1
      /\ AfterPass(k).level =
           IF rounds[k].rooms = << >>
           THEN rounds[k].level + 1 ELSE rounds[k].level

C20_Witness ==
    /\ pc = "done"
    /\ \E k \in 1 .. Len(rounds) : rounds[k].rooms = << >> /\ rounds[k].n > 0
    /\ \E k \in 1 .. Len(rounds) : rounds[k].rooms # << >>

\* --------------------------------------------------- room resolver claims

\* The rooms the element reports for the phase.
SelfReportedRooms == { eToRoom, eFromRoom, eRoom } \ { NoRoom }

\* C9: for an element that self-reports a room (Room, or ToRoom/FromRoom)
\* GetElementRooms returns exactly the self-reported rooms and performs no
\* geometry operation: no bounding-box query, no solid extraction, no
\* boolean intersection, no MakeSolid.
C9_SelfReportShortCircuits ==
    SelfReportedRooms # {} =>
      /\ \A op \in GeometryOps : opCount[op] = 0
      /\ rpc # "raised"
      /\ rpc = "returned" =>
           /\ outcome = "list"
           /\ result # << >>
           /\ Range(result) \subseteq SelfReportedRooms

TierOrder == << "solid", "dependent", "bounding" >>

\* The result of the first tier, in order, that matched a room; empty when
\* none did.
FirstNonEmptyTier ==
    LET ks == { k \in 1 .. Len(TierOrder) : tierResult[TierOrder[k]] # << >> }
    IN IF ks = {} THEN << >>
       ELSE tierResult[TierOrder[CHOOSE k \in ks : \A l \in ks : k <= l]]

\* C10: the tiers run in the fixed order solid, dependent, bounding; the
\* dependent tier runs only after the solid tier matched no room, the
\* bounding tier only after both matched none, and the list returned is the
\* result of the first tier that matched a room (empty if none did).
C10_FirstNonEmptyTierWins ==
    /\ tiersRun = SubSeq(TierOrder, 1, Len(tiersRun))
    /\ "dependent" \in Range(tiersRun) => tierResult["solid"] = << >>
    /\ "bounding" \in Range(tiersRun) =>
         tierResult["solid"] = << >> /\ tierResult["dependent"] = << >>
    /\ (rpc = "returned" /\ tiersRun # << >>) =>
         /\ outcome = "list"
         /\ result = FirstNonEmptyTier

C10_Witness ==
    /\ rpc = "returned"
    /\ tiersRun = << "solid", "dependent" >>
    /\ elementSolids > 0
    /\ Len(rooms) = 2
    /\ result # << >>

\* C11: the bounding-volume tier returns at most one room, and the room it
\* returns is a candidate whose intersection volume with the solid of the
\* outline, as _TestRoomIntersect measures it, exceeds the epsilon and is
\* the largest among the candidates.
C11_FallbackKeepsLargest ==
    (rpc = "returned" /\ "bounding" \in Range(tiersRun)) =>
      /\ Len(result) <= 1
      /\ result # << >> =>
           /\ result[1] \in Range(rooms)
           /\ result[1] \in DOMAIN probeVolume
           /\ probeVolume[result[1]] > Epsilon
           /\ \A q \in DOMAIN probeVolume :
                probeVolume[q] <= probeVolume[result[1]]

C11_Witness ==
    /\ rpc = "returned"
    /\ "bounding" \in Range(tiersRun)
    /\ Len(result) = 1
    /\ \E q \in DOMAIN probeVolume :
         /\ q < result[1]
         /\ probeVolume[q] > Epsilon
         /\ probeVolume[q] < probeVolume[result[1]]

\* The call has ended, by a return or by an exception.
CallEnded == rpc \in { "returned", "raised" }

\* C12: for an element that reports no room and whose bounding box is
\* disabled, GetElementRooms returns no result without raising, without
\* querying rooms and without a geometry operation.
C12_DisabledBoxReturnsNothing ==
    (CallEnded /\ SelfReportedRooms = {} /\ eBoundingBox = "disabled") =>
      /\ rpc = "returned"
      /\ outcome = "None"
      /\ \A op \in GeometryOps \ { "get_BoundingBox" } : opCount[op] = 0

\* C13: degenerate input never raises out of the resolver: an element
\* without a bounding box, an element without solids, a candidate room
\* without solids end in a return of no match.
C13_DegenerateInputNeverRaises ==
    (\/ bbox = "none"
     \/ elementSolids = 0
     \/ \E r \in Range(rooms) : roomSolidCount[r] = 0) =>
      /\ rpc # "raised"
      /\ rpc = "returned" => result = << >>

\* C14: GetElementRooms called without the rooms argument does not raise;
\* it returns a list, possibly empty, of rooms of the document.
C14_RoomsOmittedDoesNotRaise ==
    ~ roomsGiven =>
      /\ rpc # "raised"
      /\ rpc = "returned" => Range(result) \subseteq Rooms

\* C15: for an element that reports no room and whose outline intersects
\* the bounding box of no candidate room, GetElementRooms returns an empty
\* list and never calls the boolean intersection.
C15_NoCandidateNoIntersection ==
    (/\ CallEnded
     /\ SelfReportedRooms = {}
     /\ eBoundingBox = "enabled"
     /\ CandidatePool \cap boxHits = {}) =>
      /\ rpc = "returned"
      /\ outcome = "list"
      /\ result = << >>
      /\ opCount["ExecuteBooleanOperation"] = 0

\* The number of element solids whose intersection with the room's solid
\* exceeded the epsilon in the solid tier.
SolidMatches(room) ==
    Cardinality({ k \in 1 .. Len(tierResult["solid"]) :
                    tierResult["solid"][k] = room })

\* Every solid of the element lies in the solid of the room and in the
\* solid of no other candidate room.
EnclosedBy(room) ==
    /\ elementSolids >= 1
    /\ SolidMatches(room) = elementSolids
    /\ \A q \in Rooms \ { room } : SolidMatches(q) = 0

\* C16: for an element that reports no room and whose solids, one or
\* several, lie inside the solid of exactly one candidate room, with
\* offset 0, GetElementRooms returns the list of that one room, not
\* repeated.
C16_EnclosedElementOneRoom ==
    \A r \in Rooms :
      (/\ rpc = "returned"
       /\ tiersRun = << "solid" >>
       /\ eShape.offset = 0
       /\ EnclosedBy(r)) => result = << r >>

\* C19: no call of the resolver ends, by a return or by an exception, with
\* a solid of MakeSolid that is not disposed.
C19_MakeSolidDisposed == CallEnded => liveSolids = 0

\* The point lies in the outline.
Contains(outline, p) ==
    /\ outline.MinimumPoint.X <= p.X /\ p.X <= outline.MaximumPoint.X
    /\ outline.MinimumPoint.Z <= p.Z /\ p.Z <= outline.MaximumPoint.Z

\* C17: with projectToLevel true, for an element with a location point (or
\* the end of a location curve) and an associated level, the outline
\* _ProjectToLevel returns contains the point with the X/Y of the element
\* point and the Z of the level's elevation.
C17_OutlineHoldsLevelPoint ==
    (/\ elementOutline # NoOutline
     /\ rpc # "raised"
     /\ eShape.projectToLevel
     /\ HasElementPoint(eShape)
     /\ eShape.hasLevelId
     /\ eShape.levelFound) =>
      Contains(elementOutline, XYZ(eShape.point.X, eShape.elevation))

\* C18: in GetElementRoomsFromLink the outline of every geometric tier is
\* the element outline transformed by the inverse of the link transform:
\* the filter of the room query uses it, the solid of the bounding-volume
\* tier is built from it, and a list returned comes from the tiers, not
\* from a self-report check.
C18_LinkTiersUseTransformedOutline ==
    /\ filterOutline # NoOutline =>
         filterOutline = TransformedOutline(eShape, elementOutline)
    /\ solidBox # NoOutline =>
         solidBox = MakeSolid(filterOutline.MinimumPoint,
                              filterOutline.MaximumPoint)
    /\ (rpc = "returned" /\ outcome = "list") => tiersRun # << >>

\* C25: a candidate room is a match of the solid tier exactly when some
\* element solid and some solid of the room, any of them and not only the
\* first, have an intersection of volume above the epsilon.
C25_AnyRoomSolidMatches ==
    (tiersRun # << >> /\ (Len(tiersRun) > 1 \/ rpc = "returned")) =>
      Range(tierResult["solid"]) = overlaps

\* ------------------------------------------- numbering loop claims, part 2

\* The passes of the while loop in which a room was eligible.
ProductivePasses == { k \in 1 .. Len(rounds) : rounds[k].rooms # << >> }

\* C21: in any call the number of passes of the loop in which at least one
\* room is numbered never exceeds 2 x len(doors), for every selection, the
\* empty one included.
C21_ProductivePassesWithinCap ==
    Cardinality(ProductivePasses) <= 2 * Cardinality(doors)

\* The doors numbered in the passes before pass k.
NumberedBefore(k) ==
    { assigned[m].door :
        m \in { m \in 1 .. Len(assigned) : assigned[m].round < k } }

\* The door list of a room when the loop starts.
InitialDoors(room) == rounds[1].lists[room]

\* The doors of a room that no pass before pass k has numbered.
RemainingCount(room, k) ==
    Len(SelectSeq(InitialDoors(room), LAMBDA d : d \notin NumberedBefore(k)))

\* The position of a room in a list of rooms.
PositionIn(rs, room) == CHOOSE a \in 1 .. Len(rs) : rs[a] = room

\* C22: in every pass at level i the rooms processed are exactly the rooms
\* whose remaining door count, as it stands after the passes before (the
\* full count in the first pass), equals i, and they are processed in
\* ascending order of room area.
C22_EligibleRoomsByAscendingArea ==
    \A k \in 1 .. Len(rounds) :
      LET rs == rounds[k].rooms
          inPass == { m \in 1 .. Len(assigned) : assigned[m].round = k }
      IN /\ Range(rs) = { r \in DOMAIN doorsByRoom :
                            RemainingCount(r, k) = rounds[k].level }
         /\ Len(rs) = Cardinality(Range(rs))
         /\ \A a \in 1 .. Len(rs) : \A b \in 1 .. Len(rs) :
              a < b => roomArea[rs[a]] <= roomArea[rs[b]]
         /\ \A m \in inPass : assigned[m].room \in Range(rs)
         /\ \A m \in inPass : \A m2 \in inPass :
              m < m2 => PositionIn(rs, assigned[m].room)
                          <= PositionIn(rs, assigned[m2].room)

\* A room is processed in a pass after the first at a level below its
\* full door count, and the call has returned.
C22_Witness ==
    /\ pc = "done"
    /\ \E k \in 2 .. Len(rounds) :
         \E m \in 1 .. Len(assigned) :
           /\ assigned[m].round = k
           /\ Len(InitialDoors(assigned[m].room)) > rounds[k].level

\* C23 as stated: a room is processed only at a level greater than or equal
\* to its initial door count; shrinking makes it eligible at a later level
\* than its original door count, never at an earlier one.
C23_ProcessedAtOrAfterInitialCount ==
    \A k \in 1 .. Len(rounds) :
      \A r \in Range(rounds[k].rooms) :
        rounds[k].level >= Len(InitialDoors(r))

\* C23, amended: a room is processed only at a level less than or equal to
\* its initial door count; shrinking makes it eligible at an earlier level
\* than its original door count, never at a later one.
C23_ProcessedAtOrBeforeInitialCount ==
    \A k \in 1 .. Len(rounds) :
      \A r \in Range(rounds[k].rooms) :
        rounds[k].level <= Len(InitialDoors(r))

\* One room is processed at the level of its initial door count and
\* another, shrunk by then, at a level below its own.
C23_Witness ==
    /\ exitBy = "level"
    /\ \E k \in 1 .. Len(rounds) : \E r \in Range(rounds[k].rooms) :
         rounds[k].level = Len(InitialDoors(r))
    /\ \E k \in 1 .. Len(rounds) : \E r \in Range(rounds[k].rooms) :
         rounds[k].level < Len(InitialDoors(r))

\* The rooms a door touches in the phase.
Touches(door) == { toRoom[door], fromRoom[door] } \ { NoRoom }

RECURSIVE SumOfInitialCounts(_)
SumOfInitialCounts(roomSet) ==
    IF roomSet = {} THEN 0
    ELSE LET r == CHOOSE x \in roomSet : TRUE
         IN Len(InitialDoors(r)) + SumOfInitialCounts(roomSet \ {r})

\* The connector score of a door: the sum, over every room the door
\* touches, of the initial door count of the room.
ConnectorScore(door) == SumOfInitialCounts(Touches(door))

\* The passes of the inner loop that one room made in one pass of the loop.
GroupOf(k, room) ==
    { m \in 1 .. Len(assigned) :
        assigned[m].round = k /\ assigned[m].room = room }

\* The un-numbered doors of a room, in list order, when its group starts.
UnNumberedAt(k, room) ==
    LET first == CHOOSE m \in GroupOf(k, room) :
                   \A m2 \in GroupOf(k, room) : m <= m2
        before == { assigned[x].door : x \in 1 .. first - 1 }
    IN SelectSeq(rounds[k].lists[room], LAMBDA d : d \notin before)

FirstPosition(list, door) ==
    CHOOSE a \in 1 .. Len(list) :
      list[a] = door /\ \A b \in 1 .. a - 1 : list[b] # door

Occurrences(list, door) ==
    Cardinality({ a \in 1 .. Len(list) : list[a] = door })

\* A room with the three doors of the model in its list, all un-numbered,
\* of equal score and selected, is processed in pass k.
ThreeEqualDoors(k, room) ==
    /\ GroupOf(k, room) # {}
    /\ UnNumberedAt(k, room) = << 1, 2, 3 >>
    /\ ConnectorScore(1) = ConnectorScore(2)
    /\ ConnectorScore(2) = ConnectorScore(3)
    /\ doors = Doors

\* C24: within a processed room the un-numbered doors are assigned in
\* descending order of connector score, doors of equal score in the order
\* of the room's door list; the score the code sorts by is the sum of the
\* initial door counts of the rooms the door touches; a room with three
\* selected doors of equal score gives them the letters A, B, C in list
\* order.
C24_DoorsByDescendingScore ==
    /\ \A d \in DOMAIN doorConnectors :
         rounds # << >> => doorConnectors[d] = ConnectorScore(d)
    /\ \A k \in 1 .. Len(rounds) : \A r \in Range(rounds[k].rooms) :
         GroupOf(k, r) # {} =>
           LET list == UnNumberedAt(k, r)
               group == GroupOf(k, r)
           IN /\ Cardinality(group) = Len(list)
              /\ \A d \in Range(list) :
                   Cardinality({ m \in group : assigned[m].door = d })
                     = Occurrences(list, d)
              /\ \A m \in group :
                   (m + 1) \in group =>
                     LET a == assigned[m].door
                         b == assigned[m + 1].door
                     IN /\ ConnectorScore(a) >= ConnectorScore(b)
                        /\ ConnectorScore(a) = ConnectorScore(b) =>
                             FirstPosition(list, a) <= FirstPosition(list, b)
    /\ \A k \in 1 .. Len(rounds) : \A r \in Range(rounds[k].rooms) :
         (ThreeEqualDoors(k, r) /\ pc = "done") =>
           /\ mark[1] = RoomNumber(r) \o << "A" >>
           /\ mark[2] = RoomNumber(r) \o << "B" >>
           /\ mark[3] = RoomNumber(r) \o << "C" >>

\* A room is processed whose door of higher score stands later in its list
\* than a door of lower score, so the sort changes the order.
C24_Witness ==
    /\ pc = "done"
    /\ \E k \in 1 .. Len(rounds) : \E r \in Range(rounds[k].rooms) :
         \E m \in GroupOf(k, r) :
           /\ (m + 1) \in GroupOf(k, r)
           /\ ConnectorScore(assigned[m].door)
                > ConnectorScore(assigned[m + 1].door)
           /\ FirstPosition(rounds[k].lists[r], assigned[m].door)
                > FirstPosition(rounds[k].lists[r], assigned[m + 1].door)
           /\ assigned[m].written /\ assigned[m + 1].written

\* The mark of the door was written in the call.
MarkWritten(door) ==
    \E m \in 1 .. Len(assigned) :
      assigned[m].door = door /\ assigned[m].written

\* C26: when the doors argument holds every door of the model and the loop
\* exits because i exceeded maxLength, every door with a ToRoom or a
\* FromRoom in the phase is in numberedDoors and has had its mark written.
C26_EveryDoorNumbered ==
    (doors = Doors /\ exitBy = "level") =>
      \A d \in Doors :
        Touches(d) # {} => (d \in numberedDoors /\ MarkWritten(d))

\* No door has the same room as ToRoom and as FromRoom.
NoDoorWithinOneRoom ==
    \A d \in Doors : toRoom[d] = fromRoom[d] => toRoom[d] = NoRoom

\* C27: when the doors argument holds every door of the model and no door
\* has the same room on both sides, the loop never exits through the
\* n > nMax break: it exits with i > maxLength.
C27_CapNeverCutsFullSelection ==
    (doors = Doors /\ NoDoorWithinOneRoom) =>
      /\ exitBy # "cap"
      /\ pc = "done" => exitBy = "level"

\* A call on every door that needs more passes than there are doors, two
\* of them productive, and exits by the level.
C27_Witness ==
    /\ doors = Doors
    /\ NoDoorWithinOneRoom
    /\ exitBy = "level"
    /\ Len(rounds) > NumDoors + 1
    /\ Cardinality(ProductivePasses) = 2

\* C28: for a fixed model and phase and two selections, one contained in
\* the other, every door of the smaller selection ends with the same mark
\* after the call on the smaller selection as after the call on the larger
\* one.
C28_SelectionIndependence ==
    (run = 2 /\ pc \in { "done", "raised" }) =>
      \A d \in doors : mark[d] = firstRunMark[d]

\* The door count of a room after the recount that ends pass k.
CountAfterPass(k, room) ==
    IF k < Len(rounds)
    THEN rounds[k + 1].counts[room]
    ELSE doorsByRoom[room].doorCount

\* C29: in one call each door is numbered at most once, by one room and
\* once by that room; each room is processed in at most one pass, and its
\* remaining door count after that pass is 0.
C29_EachDoorNumberedOnce ==
    /\ \A m \in 1 .. Len(assigned) : \A m2 \in 1 .. Len(assigned) :
         m # m2 => assigned[m].door # assigned[m2].door
    /\ \A k \in 1 .. Len(rounds) : \A k2 \in 1 .. Len(rounds) :
         k # k2 => Range(rounds[k].rooms) \cap Range(rounds[k2].rooms) = {}
    /\ \A k \in 1 .. Len(rounds) : \A r \in Range(rounds[k].rooms) :
         CountAfterPass(k, r) = 0

\* The room numbers are pairwise distinct and none is another one followed
\* by one uppercase letter.
RoomNumbersApart ==
    \A r1 \in Rooms : \A r2 \in Rooms :
      r1 # r2 =>
        /\ RoomNumber(r1) # RoomNumber(r2)
        /\ \A a \in 1 .. Len(ascii_uppercase) :
             RoomNumber(r1) # RoomNumber(r2) \o << ascii_uppercase[a] >>

\* C30: if the room numbers are pairwise distinct and none is another one
\* followed by an uppercase letter, any two distinct doors whose marks are
\* written in one call receive different marks.
C30_WrittenMarksDiffer ==
    RoomNumbersApart =>
      /\ \A m \in 1 .. Len(assigned) : \A m2 \in 1 .. Len(assigned) :
           (/\ assigned[m].written
            /\ assigned[m2].written
            /\ assigned[m].door # assigned[m2].door) =>
             assigned[m].mark # assigned[m2].mark
      /\ \A d1 \in Doors : \A d2 \in Doors :
           (d1 # d2 /\ MarkWritten(d1) /\ MarkWritten(d2)) =>
             mark[d1] # mark[d2]

\* Every door of the model has had its mark written, one with the bare
\* number of a room and the others with a letter.
C30_Witness ==
    /\ pc = "done"
    /\ RoomNumbersApart
    /\ \A d \in Doors : MarkWritten(d)
    /\ \E d \in Doors : \E r \in Rooms : mark[d] = RoomNumber(r)
    /\ \E d \in Doors : \E r \in Rooms : mark[d] = RoomNumber(r) \o << "B" >>

=============================================================================
